---- MODULE Spec2Model ----
(***************************************************************************)
(* EventHorizon: the registration / waitlist / attendance lifecycle of    *)
(* services/storageService.ts, the handlers of App.tsx that drive it, and *)
(* the team invite flow of handleRegister.                                *)
(*                                                                         *)
(* The storage service runs one of its inline branches, selected by the   *)
(* flags USE_MONGO / USE_FIREBASE_STORAGE fixed at load time.  The Mongo   *)
(* branch talks to a document proxy; the repository holds several         *)
(* generations of that proxy, which differ in whether `find` honours the   *)
(* sort / limit of the request.  The request handler of the Vercel        *)
(* function (api/action/[action].js and its earlier generation) is         *)
(* modelled on its own, as are overlapping addRegistration calls and the   *)
(* custom questions of an event on their way through the store.            *)
(***************************************************************************)
EXTENDS Integers, Sequences, FiniteSets, Bags, TLC

\* ---------------------------------------------------------------- bounds
MaxEvents == 2      \* events ever saved
MaxRegs == 3        \* registrations ever inserted (ids are never reused)
MaxCap == 1         \* largest capacity typed into the event form
MaxTime == 2        \* distinct client timestamps
MaxUsers == 2       \* attendees
MaxTeams == 2       \* teams ever created
MaxTeamSize == 2    \* largest maxTeamSize typed into the event form
MaxQuestions == 2   \* custom questions added to one event form
QueueCap == 2       \* capacity of the events of the waiting-list scenarios
QueueRegs == 4      \* registrations made in the waiting-list scenarios
MaxCalls == 2       \* overlapping calls of one operation
MaxRequests == 5    \* requests that reach one process of the proxy

\* -------------------------------------------------- RegistrationStatus
PENDING == "PENDING"
APPROVED == "APPROVED"
REJECTED == "REJECTED"
WAITLISTED == "WAITLISTED"
RegistrationStatus == {PENDING, APPROVED, REJECTED, WAITLISTED}

Users == 1..MaxUsers
Times == 1..MaxTime

VARIABLES
    backend,     \* "mongo" | "local": the branch the load-time flags select
    proxy,       \* the proxy generation behind /api/action ("none" if local)
    events,      \* the events collection of the selected backend, stored order
    mongoRegs,   \* the registrations collection in MongoDB, natural order
    lsRegs,      \* localStorage[STORAGE_KEYS.REGISTRATIONS], array order
    teams,       \* the teams collection, stored order
    nextId,      \* next fresh id of a registration or a user (crypto.randomUUID)
    last,        \* the last call: its name, its target and what it returned
    registrations, \* the React state `registrations` of the client under study
    calls,       \* the asynchronous calls in flight, one record per caller
    res,         \* the request the proxy handled last and the response it sent
    connected,   \* the client the proxy caches between requests: "no" none yet,
                 \* "yes" a connected MongoClient, "rejected" a connect() promise
                 \* that failed (global._mongoClientPromise keeps it), "pending"
                 \* a connect() promise that has not settled yet
    clients,     \* the MongoClients the proxy process has connected so far
    notifications, \* the notifications collection, a bag of documents (their
                 \* order is never read: getNotifications sorts by createdAt)
    reminders,   \* the localStorage keys reminder_1h_<event>_<user> that are set
    users,       \* the users collection, stored order
    session      \* localStorage[STORAGE_KEYS.CURRENT_USER] of the browser

vars == <<backend, proxy, events, mongoRegs, lsRegs, teams, nextId, last, registrations, calls, res, connected, clients, notifications, reminders, users, session>>

\* the state outside the registration lifecycle, the proxy and the calls in flight
rest == <<clients, reminders, users, session>>

\* ------------------------------------------------------------- helpers
Range(s) == {s[i] : i \in DOMAIN s}

\* Array.prototype.findIndex on the sequence of the callback's results,
\* 1-based; 0 stands for -1
FindIndex(hits) ==
    IF \E i \in DOMAIN hits : hits[i]
    THEN CHOOSE i \in DOMAIN hits : hits[i] /\ \A j \in 1..(i - 1) : ~hits[j]
    ELSE 0

USE_MONGO == backend = "mongo"

\* the documents getRegistrations() reads in the selected branch
Regs == IF USE_MONGO THEN mongoRegs ELSE lsRegs

RegIds(regs) == {r.id : r \in Range(regs)}
RegById(regs, id) == CHOOSE r \in Range(regs) : r.id = id

EventIds == {e.id : e \in Range(events)}
EventById(id) == CHOOSE e \in Range(events) : e.id = id

NoCall == [op |-> "none", id |-> 0, ret |-> "none"]

\* no request handled yet
NoResponse == [method |-> "none"]

\* localStorage holds no CURRENT_USER
NoSession == [id |-> 0]

\* -------------------------------------------------------------- proxy
\* `find` of api/action/[action].js passes sort and limit to the driver;
\* the Express server (server.js) calls col.find(query) and drops both.
ProxyKinds == {"api_action", "server"}
FindHonoursSort == proxy = "api_action"

\* nothing stored, no call made, no request handled
Fresh ==
    /\ events = <<>>
    /\ mongoRegs = <<>>
    /\ lsRegs = <<>>
    /\ teams = <<>>
    /\ nextId = 1
    /\ last = NoCall
    /\ registrations = <<>>
    /\ calls = <<>>
    /\ res = NoResponse
    /\ connected = "no"
    /\ clients = 0
    /\ notifications = EmptyBag
    /\ reminders = {}
    /\ users = <<>>
    /\ session = NoSession

Init ==
    /\ backend \in {"mongo", "local"}
    /\ proxy \in IF backend = "mongo" THEN ProxyKinds ELSE {"none"}
    /\ Fresh

\* -------------------------------------------------------------- events
\* A CustomQuestion { id, type, required, options? } of the event form;
\* `options` is a key the object may lack (a question made by
\* "+ Add Question" has none).
NoOptions == [defined |-> FALSE, value |-> <<>>]
Options(v) == [defined |-> TRUE, value |-> v]
QuestionKeys == <<"id", "type", "required", "options">>

\* the value JSON.stringify writes for key k of question q
QuestionValue(q, k) == IF k = "options" THEN q.options.value ELSE q[k]

\* JSON.stringify of a question (the body of mongoRequest, the string put in
\* localStorage): its <<key, value>> pairs in key order, a key whose value
\* is undefined left out
StringifyQuestion(q) ==
    LET present == SelectSeq(QuestionKeys, LAMBDA k : k # "options" \/ q.options.defined)
    IN [i \in DOMAIN present |-> <<present[i], QuestionValue(q, present[i])>>]

\* a serializer that walks the list from its end
StringifyQuestionsReversed(qs) ==
    [i \in DOMAIN qs |-> StringifyQuestion(qs[Len(qs) + 1 - i])]

StringifyQuestions(qs) == [i \in DOMAIN qs |-> StringifyQuestion(qs[i])]

\* response.json() / JSON.parse of a stored question: a key the pairs lack
\* reads as undefined
ParseQuestion(doc) ==
    LET has(k) == \E i \in DOMAIN doc : doc[i][1] = k
        val(k) == doc[CHOOSE i \in DOMAIN doc : doc[i][1] = k][2]
    IN [id |-> val("id"), type |-> val("type"), required |-> val("required"),
        options |-> IF has("options") THEN Options(val("options")) ELSE NoOptions]

ParseQuestions(docs) == [i \in DOMAIN docs |-> ParseQuestion(docs[i])]

\* the stored document of an Event object and back
EventDoc(event) == [event EXCEPT !.customQuestions = StringifyQuestions(@)]
EventOfDoc(doc) == [doc EXCEPT !.customQuestions = ParseQuestions(@)]

\* getEvents(): the documents of the events collection, in stored order
getEvents == [i \in DOMAIN events |-> EventOfDoc(events[i])]

\* saveEvent(event) as handleSaveEvent calls it: capacity =
\* parseInt(form.capacity) || 0, maxTeamSize = parseInt(form.maxTeamSize) || 0,
\* isRegistrationOpen = true, customQuestions = form.customQuestions || [].
\* fail = 1: the insertOne request of the Mongo branch fails; the catch block
\* logs and rethrows.
saveEvent(cap, mts, customQuestions, fail) ==
    /\ Len(events) < MaxEvents
    /\ fail \in (IF USE_MONGO THEN 0..1 ELSE {0})
    /\ IF fail = 0
       THEN /\ events' = Append(events, EventDoc(
                  [id |-> Len(events) + 1, capacity |-> cap, maxTeamSize |-> mts,
                   isRegistrationOpen |-> TRUE, customQuestions |-> customQuestions]))
            /\ last' = [op |-> "saveEvent", id |-> Len(events) + 1, ret |-> "event",
                        arg |-> customQuestions]
       ELSE /\ UNCHANGED events
            /\ last' = [op |-> "saveEvent", id |-> 0, ret |-> "throws",
                        arg |-> customQuestions]
    /\ UNCHANGED <<notifications, backend, proxy, mongoRegs, lsRegs, teams, nextId>>

\* updateEvent(event).  Mongo branch: updateOne { id } { $set: every field of
\* event but id }, true when a document matched; a failed request (fail = 1)
\* is logged and rethrown.  Local branch: events[index] = event, false when
\* no stored event has the id.
updateEvent(event, fail) ==
    /\ fail \in (IF USE_MONGO THEN 0..1 ELSE {0})
    /\ IF fail = 0
       THEN /\ events' = [i \in DOMAIN events |->
                              IF events[i].id = event.id THEN EventDoc(event) ELSE events[i]]
            /\ last' = [op |-> "updateEvent", id |-> event.id,
                        ret |-> IF \E i \in DOMAIN events : events[i].id = event.id
                                THEN "true" ELSE "false"]
       ELSE /\ UNCHANGED events
            /\ last' = [op |-> "updateEvent", id |-> event.id, ret |-> "throws"]
    /\ UNCHANGED <<notifications, backend, proxy, mongoRegs, lsRegs, teams, nextId>>

\* ------------------------------------------------------- registrations
\* the branch's write of the registrations documents
WriteRegs(new) ==
    IF USE_MONGO
    THEN mongoRegs' = new /\ UNCHANGED lsRegs
    ELSE lsRegs' = new /\ UNCHANGED mongoRegs

\* deleteEvent(id).  Mongo: deleteOne on events, then deleteMany on the
\* registrations of the event in a try of its own; fail = 1: the deleteOne
\* request fails (false, nothing removed), fail = 2: the deleteMany request
\* fails, which is only logged.  Local storage: both arrays are filtered.
deleteEvent(id, fail) ==
    /\ fail \in (IF USE_MONGO THEN 0..2 ELSE {0})
    /\ events' = IF fail = 1 THEN events
                 ELSE SelectSeq(events, LAMBDA e : e.id # id)
    /\ WriteRegs(IF fail = 0 THEN SelectSeq(Regs, LAMBDA r : r.eventId # id) ELSE Regs)
    /\ last' = [op |-> "deleteEvent", id |-> id,
                ret |-> IF fail = 1 THEN "false" ELSE "true"]
    /\ UNCHANGED <<notifications, backend, proxy, teams, nextId>>

\* the documents the capacity check of addRegistration counts:
\* filter { eventId, status: { $ne: REJECTED } }
CountedRegs(regs, eventId) ==
    SelectSeq(regs, LAMBDA r : r.eventId = eventId /\ r.status # REJECTED)

\* a capacity check that is off by one: count > capacity
InitialStatusOffByOne(regs, event) ==
    IF Len(CountedRegs(regs, event.id)) > event.capacity
    THEN WAITLISTED
    ELSE PENDING

\* isFull ? WAITLISTED : PENDING
InitialStatus(regs, event) ==
    IF Len(CountedRegs(regs, event.id)) >= event.capacity
    THEN WAITLISTED
    ELSE PENDING

\* { ...reg, id: newId, status }; handleRegister passes attended: false
NewReg(id, eventId, participantId, registeredAt, status) ==
    [id |-> id, eventId |-> eventId, participantId |-> participantId,
     status |-> status, attended |-> FALSE, attendanceTime |-> 0,
     registeredAt |-> registeredAt]

\* addRegistration(reg) on the documents regs: [regs, id, ret], ret the
\* status of the stored registration or "null".  fail is the request of the
\* Mongo branch that throws (1 findOne event, 2 find registrations,
\* 3 insertOne; 0 none); "Event not found" ends in null in both branches.
addRegistrationResult(regs, newId, eventId, participantId, registeredAt, fail) ==
    IF fail = 0 /\ eventId \in EventIds
    THEN LET status == InitialStatus(regs, EventById(eventId))
         IN [regs |-> Append(regs, NewReg(newId, eventId, participantId, registeredAt, status)),
             id |-> newId, ret |-> status]
    ELSE [regs |-> regs, id |-> 0, ret |-> "null"]

\* addRegistration while fewer than bound registrations have been made
addRegistrationUpTo(bound, eventId, participantId, registeredAt, fail) ==
    /\ nextId <= bound
    /\ fail \in (IF USE_MONGO THEN 0..3 ELSE {0})
    /\ LET out == addRegistrationResult(Regs, nextId, eventId, participantId,
                                        registeredAt, fail)
       IN /\ WriteRegs(out.regs)
          /\ nextId' = IF out.id = 0 THEN nextId ELSE nextId + 1
          /\ last' = [op |-> "addRegistration", id |-> out.id, ret |-> out.ret]
    /\ UNCHANGED <<notifications, backend, proxy, events, teams>>

addRegistration(eventId, participantId, registeredAt, fail) ==
    addRegistrationUpTo(MaxRegs, eventId, participantId, registeredAt, fail)

\* addRegistration of the Mongo branch request by request, for calls that
\* overlap.  A call in flight is a record of calls: the event it registers
\* for, the request it makes next (pc), the capacity and the count it has
\* read, and at the end the id it stored (0 for null).
NewCall(eventId) ==
    [eventId |-> eventId, pc |-> "findOne", capacity |-> 0, count |-> 0, id |-> 0]

\* a capacity check made again at the moment of the insert
IsFullRecounted(call) ==
    Len(CountedRegs(mongoRegs, call.eventId)) >= call.capacity

\* const isFull = count >= event.capacity, from what the call has read
IsFull(call) == call.count >= call.capacity

RaceFrame == UNCHANGED <<notifications, backend, proxy, events, lsRegs, teams, registrations, res, connected, rest>>

\* the call starts: findOne events { id: reg.eventId }; no document throws
\* "Event not found", which the catch turns into null
addRegistrationFindOne(eventId) ==
    /\ USE_MONGO
    /\ nextId + Cardinality({i \in DOMAIN calls : calls[i].pc # "done"}) <= MaxRegs
    /\ Len(calls) < MaxRegs
    /\ IF eventId \in EventIds
       THEN /\ calls' = Append(calls, [NewCall(eventId) EXCEPT
                            !.pc = "find", !.capacity = EventById(eventId).capacity])
            /\ UNCHANGED last
       ELSE /\ calls' = Append(calls, [NewCall(eventId) EXCEPT !.pc = "done"])
            /\ last' = [op |-> "addRegistration", id |-> 0, ret |-> "null"]
    /\ UNCHANGED <<mongoRegs, nextId>>
    /\ RaceFrame

\* find registrations { eventId, status: { $ne: REJECTED } }; count = length
addRegistrationFind(i) ==
    /\ i \in DOMAIN calls
    /\ calls[i].pc = "find"
    /\ calls' = [calls EXCEPT ![i].pc = "insertOne",
                              ![i].count = Len(CountedRegs(mongoRegs, calls[i].eventId))]
    /\ UNCHANGED <<mongoRegs, nextId, last>>
    /\ RaceFrame

\* insertOne { ...reg, id: newId, status }; return newReg
addRegistrationInsertOne(i, registeredAt) ==
    /\ i \in DOMAIN calls
    /\ calls[i].pc = "insertOne"
    /\ LET status == IF IsFull(calls[i]) THEN WAITLISTED ELSE PENDING
       IN /\ mongoRegs' = Append(mongoRegs,
                    NewReg(nextId, calls[i].eventId, nextId, registeredAt, status))
          /\ last' = [op |-> "addRegistration", id |-> nextId, ret |-> status]
    /\ calls' = [calls EXCEPT ![i].pc = "done", ![i].id = nextId]
    /\ nextId' = nextId + 1
    /\ RaceFrame

\* updateOne { id } { $set: { status } } / regs.map(r => r.id === id ? {...r, status} : r)
\* an update that replaces the document instead of using $set
SetStatusReplacing(regs, id, status) ==
    [i \in DOMAIN regs |->
        IF regs[i].id = id
        THEN [regs[i] EXCEPT !.status = status, !.attended = FALSE, !.attendanceTime = 0]
        ELSE regs[i]]

SetStatus(regs, id, status) ==
    [i \in DOMAIN regs |->
        IF regs[i].id = id THEN [regs[i] EXCEPT !.status = status] ELSE regs[i]]

Waitlisted(regs, eventId) ==
    SelectSeq(regs, LAMBDA r : r.eventId = eventId /\ r.status = WAITLISTED)

\* the values documents[0] can take for
\*   find { eventId, status: WAITLISTED }, sort { registeredAt: 1 }, limit 1
\* a proxy that honours the sort returns an oldest document (the order of
\* equal keys is the driver's); one that drops it returns the first stored.
NextInLineMongo(regs, eventId) ==
    LET w == Waitlisted(regs, eventId)
    IN IF w = <<>> THEN {}
       ELSE IF FindHonoursSort
            THEN {x.id : x \in {r \in Range(w) :
                        \A o \in Range(w) : r.registeredAt <= o.registeredAt}}
            ELSE {w[1].id}

\* Mongo branch of deleteRegistration on the collection regs: the set of
\* outcomes [regs, ret].  fail is the request that throws (1 findOne,
\* 2 deleteOne, 3 find waitlisted, 4 updateOne; 0 none).
deleteRegistrationMongo(regs, id, fail) ==
    LET exists == id \in RegIds(regs)
        eventIdToCleanup == RegById(regs, id).eventId
        filtered == SelectSeq(regs, LAMBDA r : r.id # id)
    IN IF fail \in {1, 2} THEN {[regs |-> regs, ret |-> "false"]}
       ELSE IF ~exists THEN {[regs |-> regs, ret |-> "false"]}
       ELSE IF fail = 3 THEN {[regs |-> filtered, ret |-> "false"]}
       ELSE IF NextInLineMongo(filtered, eventIdToCleanup) = {}
            THEN {[regs |-> filtered, ret |-> "true"]}
       ELSE IF fail = 4 THEN {[regs |-> filtered, ret |-> "false"]}
       ELSE {[regs |-> SetStatus(filtered, n, PENDING), ret |-> "true"] :
                n \in NextInLineMongo(filtered, eventIdToCleanup)}

\* local-storage branch of deleteRegistration
deleteRegistrationLocal(regs, id) ==
    LET exists == id \in RegIds(regs)
        eventIdToCleanup == RegById(regs, id).eventId
        filtered == SelectSeq(regs, LAMBDA r : r.id # id)
        waitlistedIndex ==
            FindIndex([i \in DOMAIN filtered |->
                /\ filtered[i].eventId = eventIdToCleanup
                /\ filtered[i].status = WAITLISTED])
    IN IF exists /\ waitlistedIndex # 0
       THEN {[regs |-> [filtered EXCEPT ![waitlistedIndex].status = PENDING],
              ret |-> "true"]}
       ELSE {[regs |-> filtered, ret |-> "true"]}

deleteRegistration(id, fail) ==
    /\ fail \in (IF USE_MONGO THEN 0..4 ELSE {0})
    /\ \E out \in (IF USE_MONGO
                   THEN deleteRegistrationMongo(mongoRegs, id, fail)
                   ELSE deleteRegistrationLocal(lsRegs, id)) :
          /\ WriteRegs(out.regs)
          /\ last' = [op |-> "deleteRegistration", id |-> id, ret |-> out.ret]
    /\ UNCHANGED <<notifications, backend, proxy, events, teams, nextId>>

\* updateRegistrationStatus(id, status).  In the Mongo branch a failed
\* updateOne is caught and control falls through to the local-storage code:
\* getRegistrations() (the Mongo find, [] when that fails too) mapped and
\* written to localStorage.  fail: 0 none, 1 updateOne, 2 updateOne and find.
updateRegistrationStatus(id, status, fail) ==
    /\ fail \in (IF USE_MONGO THEN 0..2 ELSE {0})
    /\ IF USE_MONGO
       THEN IF fail = 0
            THEN mongoRegs' = SetStatus(mongoRegs, id, status) /\ UNCHANGED lsRegs
            ELSE /\ lsRegs' = SetStatus(IF fail = 1 THEN mongoRegs ELSE <<>>, id, status)
                 /\ UNCHANGED mongoRegs
       ELSE lsRegs' = SetStatus(lsRegs, id, status) /\ UNCHANGED mongoRegs

\* addNotification(notification): { ...notification, id, createdAt, read: false }
\* inserted into the collection of the selected backend
addNotification(notification) ==
    notifications' = notifications (+) SetToBag({notification})

\* step 2 of handleStatusUpdate: the registration is looked up in the React
\* state and its event among the loaded events (here: the stored ones);
\* with both found the participant gets an in-app notification
NotifyStatus(regId, status) ==
    LET reg == RegById(registrations, regId)
    IN IF regId \in RegIds(registrations) /\ reg.eventId \in EventIds
       THEN addNotification([userId |-> reg.participantId,
                title |-> IF status = APPROVED THEN "Registration Approved!"
                          ELSE "Registration Update"])
       ELSE UNCHANGED notifications

\* a Reject button that sends the participant back to the waitlist
handleStatusUpdateRequeue(regId, status, fail) ==
    /\ regId \in RegIds(registrations)
    /\ RegById(registrations, regId).status = PENDING
    /\ status \in {APPROVED, REJECTED}
    /\ updateRegistrationStatus(regId, IF status = REJECTED THEN WAITLISTED ELSE status, fail)
    /\ NotifyStatus(regId, status)
    /\ last' = [op |-> "handleStatusUpdate", id |-> regId, ret |-> status]
    /\ UNCHANGED <<backend, proxy, events, teams, nextId>>

\* handleStatusUpdate(regId, status): the Approve / Reject buttons of a row,
\* rendered only while the row (of the React state) shows status PENDING
handleStatusUpdate(regId, status, fail) ==
    /\ regId \in RegIds(registrations)
    /\ RegById(registrations, regId).status = PENDING
    /\ status \in {APPROVED, REJECTED}
    /\ updateRegistrationStatus(regId, status, fail)
    /\ NotifyStatus(regId, status)
    /\ last' = [op |-> "handleStatusUpdate", id |-> regId, ret |-> status]
    /\ UNCHANGED <<backend, proxy, events, teams, nextId>>

SetStatusAll(regs, ids, status) ==
    [i \in DOMAIN regs |->
        IF regs[i].id \in ids THEN [regs[i] EXCEPT !.status = status] ELSE regs[i]]

\* Bulk Actions Bar, Approve / Reject:
\*   Promise.all(selectedRegistrationIds.map(id => updateRegistrationStatus(id, s)))
\* on the rows ticked in one event's participant table, whatever their status.
\* Mongo branch: every updateOne whose request succeeds is applied; a call
\* whose request fails (failed) writes localStorage as above, from the
\* documents it reads while some of the others (seen) are applied, and the
\* last such write stays.  Local branch: every call reads localStorage before
\* any of them writes, so the write of the call that ends last (lastSel) stays.
bulkUpdateStatus(selected, status, failed, seen, lastSel, findFails) ==
    /\ selected # {}
    /\ \E e \in EventIds : selected \subseteq {r.id : r \in {x \in Range(registrations) : x.eventId = e}}
    /\ status \in {APPROVED, REJECTED}
    /\ lastSel \in selected
    /\ IF USE_MONGO
       THEN /\ failed \subseteq selected
            /\ seen \subseteq (selected \ failed)
            /\ mongoRegs' = SetStatusAll(mongoRegs, selected \ failed, status)
            /\ IF failed = {}
               THEN seen = {} /\ findFails = FALSE /\ UNCHANGED lsRegs
               ELSE /\ lastSel \in failed
                    /\ lsRegs' = SetStatus(
                          IF findFails THEN <<>>
                          ELSE SetStatusAll(mongoRegs, seen, status), lastSel, status)
       ELSE /\ failed = {} /\ seen = {} /\ findFails = FALSE
            /\ lsRegs' = SetStatus(lsRegs, lastSel, status)
            /\ UNCHANGED mongoRegs
    /\ last' = [op |-> "bulkUpdateStatus", id |-> 0, ret |-> status]
    /\ UNCHANGED <<notifications, backend, proxy, events, teams, nextId>>

\* { $set: { attended: true, attendanceTime: timestamp } }
SetAttended(regs, id, timestamp) ==
    [i \in DOMAIN regs |->
        IF regs[i].id = id
        THEN [regs[i] EXCEPT !.attended = TRUE, !.attendanceTime = timestamp]
        ELSE regs[i]]

\* a check-in that forgets the status: reg alone
MayAttendAnyStatus(regs, id) == id \in RegIds(regs)

\* the condition under which markAttendance writes: reg && reg.status === APPROVED
MayAttend(regs, id) ==
    /\ id \in RegIds(regs)
    /\ RegById(regs, id).status = APPROVED

\* markAttendance(id); timestamp = new Date().toISOString().
\* fail: the Mongo request that throws (1 findOne, 2 updateOne; 0 none).
markAttendance(id, timestamp, fail) ==
    /\ fail \in (IF USE_MONGO THEN 0..2 ELSE {0})
    /\ IF fail = 0 /\ MayAttend(Regs, id)
       THEN /\ WriteRegs(SetAttended(Regs, id, timestamp))
            /\ last' = [op |-> "markAttendance", id |-> id, ret |-> "true"]
       ELSE /\ UNCHANGED <<mongoRegs, lsRegs>>
            /\ last' = [op |-> "markAttendance", id |-> id, ret |-> "false"]
    /\ UNCHANGED <<notifications, backend, proxy, events, teams, nextId>>

\* the toast of handleScan after markAttendance returned false, from the
\* registration the React state holds under that id
ScanFailureToast(id) ==
    LET found == id \in RegIds(registrations)
        reg == RegById(registrations, id)
    IN IF found /\ reg.status # APPROVED THEN "Participant is not approved yet!"
       ELSE IF found /\ reg.attended THEN "Already marked as attended."
       ELSE "Invalid Ticket or Participant not found"

\* what a scanned QR code holds: text that is no JSON (json FALSE), JSON
\* without id (id 0), or JSON with the id of a ticket
Payloads == {[json |-> FALSE, id |-> 0]} \cup [json : {TRUE}, id : 0..MaxRegs]

\* handleScan(data): JSON.parse, markAttendance(payload.id), then a toast;
\* loadData() after a success.  `called` tells whether markAttendance ran.
handleScan(payload, timestamp, fail) ==
    /\ fail \in (IF USE_MONGO THEN 0..2 ELSE {0})
    /\ IF ~payload.json \/ payload.id = 0
       THEN /\ UNCHANGED <<mongoRegs, lsRegs, registrations>>
            /\ last' = [op |-> "handleScan", id |-> 0, ret |-> "Invalid QR Code Format",
                        called |-> FALSE]
       ELSE IF fail = 0 /\ MayAttend(Regs, payload.id)
       THEN /\ WriteRegs(SetAttended(Regs, payload.id, timestamp))
            /\ registrations' = SetAttended(Regs, payload.id, timestamp)
            /\ last' = [op |-> "handleScan", id |-> payload.id,
                        ret |-> "Attendance Marked Successfully!", called |-> TRUE]
       ELSE /\ UNCHANGED <<mongoRegs, lsRegs, registrations>>
            /\ last' = [op |-> "handleScan", id |-> payload.id, ret |-> ScanFailureToast(payload.id),
                        called |-> TRUE]
    /\ UNCHANGED <<notifications, backend, proxy, events, teams, nextId, calls, res, connected, rest>>

\* loadData() on its own: the 120 s interval, a socket event
loadData ==
    /\ registrations' = Regs
    /\ last' = [op |-> "loadData", id |-> 0, ret |-> "ok"]
    /\ UNCHANGED <<notifications, backend, proxy, events, mongoRegs, lsRegs, teams, nextId, calls, res, connected, rest>>

\* deleteRegistration of the Mongo branch request by request, for calls
\* that overlap.  A call in flight is a record of calls: the id it deletes,
\* the document findOne returned (eventId 0 and status "none" when there
\* is none), deleted (result.deletedCount > 0), next (nextInLine.id, 0
\* while there is none) and the request it makes next; waitlisted, the
\* length of the event's waiting list when the call started, is kept to
\* state properties.
deleteRegistrationFindOne(id) ==
    /\ USE_MONGO
    /\ Len(calls) < MaxCalls
    /\ LET found == id \in RegIds(mongoRegs)
           doc == RegById(mongoRegs, id)
       IN calls' = Append(calls,
              [op |-> "deleteRegistration", id |-> id, pc |-> "deleteOne",
               eventId |-> IF found THEN doc.eventId ELSE 0,
               status |-> IF found THEN doc.status ELSE "none",
               waitlisted |-> IF found THEN Len(Waitlisted(mongoRegs, doc.eventId)) ELSE 0,
               deleted |-> FALSE, next |-> 0])
    /\ UNCHANGED <<mongoRegs, nextId, last>>
    /\ RaceFrame

\* deleteOne { id }; without a deleted document or an eventId the call
\* returns result.deletedCount > 0 at once
deleteRegistrationDeleteOne(i) ==
    /\ i \in DOMAIN calls
    /\ calls[i].pc = "deleteOne"
    /\ LET deleted == calls[i].id \in RegIds(mongoRegs)
           promotes == deleted /\ calls[i].eventId # 0
       IN /\ mongoRegs' = SelectSeq(mongoRegs, LAMBDA r : r.id # calls[i].id)
          /\ calls' = [calls EXCEPT ![i].deleted = deleted,
                                    ![i].pc = IF promotes THEN "find" ELSE "done"]
          /\ last' = IF promotes THEN last
                     ELSE [op |-> "deleteRegistration", id |-> calls[i].id,
                           ret |-> IF deleted THEN "true" ELSE "false"]
    /\ UNCHANGED nextId
    /\ RaceFrame

\* find { eventId, status: WAITLISTED }, sort { registeredAt: 1 }, limit 1
deleteRegistrationFind(i) ==
    /\ i \in DOMAIN calls
    /\ calls[i].pc = "find"
    /\ LET nextInLine == NextInLineMongo(mongoRegs, calls[i].eventId)
       IN IF nextInLine = {}
          THEN /\ calls' = [calls EXCEPT ![i].pc = "done"]
               /\ last' = [op |-> "deleteRegistration", id |-> calls[i].id, ret |-> "true"]
          ELSE /\ \E n \in nextInLine :
                     calls' = [calls EXCEPT ![i].pc = "updateOne", ![i].next = n]
               /\ UNCHANGED last
    /\ UNCHANGED <<mongoRegs, nextId>>
    /\ RaceFrame

\* updateOne { id: nextInLine.id } { $set: { status: PENDING } }; return
deleteRegistrationUpdateOne(i) ==
    /\ i \in DOMAIN calls
    /\ calls[i].pc = "updateOne"
    /\ mongoRegs' = SetStatus(mongoRegs, calls[i].next, PENDING)
    /\ calls' = [calls EXCEPT ![i].pc = "done"]
    /\ last' = [op |-> "deleteRegistration", id |-> calls[i].id, ret |-> "true"]
    /\ UNCHANGED nextId
    /\ RaceFrame

\* checkReminders() of the reminder effect, for one of the user's APPROVED
\* registrations whose event starts within the hour, step by step: the
\* effect runs it on a 60 s timer and again whenever currentUser,
\* registrations or events change, so invocations overlap while
\* addNotification is awaited.  A call in flight is a record of calls.
ReminderKey(event, user) == [event |-> event, user |-> user]

Upcoming(event, user) == [userId |-> user, title |-> "Upcoming Event", message |-> event]

ReminderFrame == UNCHANGED <<backend, proxy, events, mongoRegs, lsRegs, teams, nextId, registrations, last, res, connected, clients, users, session>>

\* alreadySent = localStorage.getItem(reminderKey); if (!alreadySent)
\* addNotification(..) is called and awaited
checkRemindersGetItem(event, user) ==
    IF ReminderKey(event, user) \in reminders
    THEN UNCHANGED <<calls, reminders>>
    ELSE /\ calls' = Append(calls, [op |-> "checkReminders", event |-> event,
                                    user |-> user, pc |-> "insertOne"])
         /\ UNCHANGED reminders

checkReminders(reg) ==
    /\ USE_MONGO
    /\ Len(calls) < MaxRegs
    /\ reg \in Range(registrations)
    /\ reg.status = APPROVED
    /\ reg.eventId \in EventIds
    /\ checkRemindersGetItem(reg.eventId, reg.participantId)
    /\ UNCHANGED notifications
    /\ ReminderFrame

\* the insertOne of addNotification reaches the database
checkRemindersInsertOne(i) ==
    /\ i \in DOMAIN calls
    /\ calls[i].pc = "insertOne"
    /\ addNotification(Upcoming(calls[i].event, calls[i].user))
    /\ calls' = [calls EXCEPT ![i].pc = "setItem"]
    /\ UNCHANGED reminders
    /\ ReminderFrame

\* the await returns: localStorage.setItem(reminderKey, 'true')
checkRemindersSetItem(i) ==
    /\ i \in DOMAIN calls
    /\ calls[i].pc = "setItem"
    /\ reminders' = reminders \cup {ReminderKey(calls[i].event, calls[i].user)}
    /\ calls' = [calls EXCEPT ![i].pc = "done"]
    /\ UNCHANGED notifications
    /\ ReminderFrame

\* loadData() request by request, for calls that overlap (the 120 s
\* interval, a socket event, the reload after a user action).  A call in
\* flight is a record of calls, in the order the calls were issued: pc
\* "sent" until getInitialData has read the store, "served" until its
\* promise resolves in the browser, then "done"; regs is what it read.
LoadFrame == UNCHANGED <<notifications, backend, proxy, events, mongoRegs, lsRegs, teams, nextId, res, connected, rest>>

\* a loadData that drops a response when a call issued later has resolved
AppliesIfNewest(i) == \A j \in DOMAIN calls : j > i => calls[j].pc # "done"

\* if (currentUser) { setEvents(evts); setRegistrations(regs); ... }: every
\* response is applied, there is no generation counter or abort signal
Applies(i) == TRUE

loadDataSend ==
    /\ USE_MONGO
    /\ Len(calls) < MaxRegs
    /\ calls' = Append(calls, [op |-> "loadData", pc |-> "sent", regs |-> <<>>])
    /\ UNCHANGED <<registrations, last>>
    /\ LoadFrame

\* getInitialData reads the registrations
loadDataServe(i) ==
    /\ i \in DOMAIN calls
    /\ calls[i].pc = "sent"
    /\ calls' = [calls EXCEPT ![i].pc = "served", ![i].regs = Regs]
    /\ UNCHANGED <<registrations, last>>
    /\ LoadFrame

\* the await returns: setRegistrations(regs)
loadDataResolve(i) ==
    /\ i \in DOMAIN calls
    /\ calls[i].pc = "served"
    /\ calls' = [calls EXCEPT ![i].pc = "done"]
    /\ registrations' = IF Applies(i) THEN calls[i].regs ELSE registrations
    /\ last' = [op |-> "loadData", id |-> i, ret |-> "ok"]
    /\ LoadFrame

\* --------------------------------------------------------------- teams
\* createTeam(team): stores the team with the creator as its only member
\* and a generated invite code (here the team's id); null past MaxTeams
\* never happens, the bound stops the model before.
createTeam(eventId, leaderId) ==
    [id |-> Len(teams) + 1, eventId |-> eventId, leaderId |-> leaderId,
     members |-> <<leaderId>>, inviteCode |-> Len(teams) + 1]

\* getTeamByInviteCode(code): index of the team in teams, 0 for null
getTeamByInviteCode(code) ==
    FindIndex([i \in DOMAIN teams |-> teams[i].inviteCode = code])

\* joinTeam(teamId, member): appends the member
joinTeam(teamIndex, userId) ==
    [teams EXCEPT ![teamIndex].members = Append(@, userId)]

\* selectedEventForReg.maxTeamSize || 99
DefaultTeamLimit == 99
TeamLimit(event) ==
    IF event.maxTeamSize # 0 THEN event.maxTeamSize ELSE DefaultTeamLimit

\* team.members.length >= (selectedEventForReg.maxTeamSize || 99)
TeamIsFull(team, event) == Len(team.members) >= TeamLimit(event)

\* the checks of handleRegister that end it before anything is written;
\* started: now >= new Date(latestEvent.date); missing: a required custom
\* question has no answer.  "ok" when none applies.  The "Check existing"
\* step searches the React state `registrations`, whatever the status.
RegisterRefusal(eventId, userId, started, missing) ==
    IF eventId \notin EventIds \/ ~EventById(eventId).isRegistrationOpen
    THEN "Registration is no longer open for this event"
    ELSE IF started THEN "This event has already started or ended"
    ELSE IF \E r \in Range(registrations) : r.eventId = eventId /\ r.participantId = userId
    THEN "You are already registered for this event"
    ELSE IF missing THEN "Please answer the required question"
    ELSE "ok"

\* the team step of handleRegister: [teams, ret]; ret "ok" lets the handler
\* go on to addRegistration.  mode, subMode and inviteCode are the fields of
\* teamRegistrationData, which outlive the modal they were typed in.
TeamStep(eventId, userId, mode, subMode, inviteCode) ==
    IF mode # "team" THEN [teams |-> teams, ret |-> "ok"]
    ELSE IF subMode = "create"
    THEN [teams |-> Append(teams, createTeam(eventId, userId)), ret |-> "ok"]
    ELSE LET k == getTeamByInviteCode(inviteCode)
         IN IF k = 0 THEN [teams |-> teams, ret |-> "Invalid invite code"]
            ELSE IF teams[k].eventId # eventId
            THEN [teams |-> teams, ret |-> "This invite code is for a different event"]
            ELSE IF TeamIsFull(teams[k], EventById(eventId))
            THEN [teams |-> teams, ret |-> "Team is already full"]
            ELSE [teams |-> joinTeam(k, userId), ret |-> "ok"]

\* a handler that undoes the team write when no registration was created
TeamsAfterRollback(step, out) == IF out.id = 0 THEN teams ELSE step.teams

\* the teams once addRegistration has returned: what the team step wrote;
\* neither the else branch (toast) nor the catch touches the team
TeamsAfter(step, out) == step.teams

\* handleRegister, the submit of the registration modal for the event
\* eventId by the user userId; loadData() follows a created registration.
\* When addRegistration returns null the modal stays open with its form:
\* the user, the event, and whether a team was asked for.
handleRegister(eventId, userId, started, missing, mode, subMode, inviteCode, registeredAt, fail) ==
    /\ nextId <= MaxRegs
    /\ eventId \in EventIds
    /\ fail \in (IF USE_MONGO THEN 0..3 ELSE {0})
    /\ (mode = "team" /\ subMode = "create") => Len(teams) < MaxTeams
    /\ LET refusal == RegisterRefusal(eventId, userId, started, missing)
           step == TeamStep(eventId, userId, mode, subMode, inviteCode)
           out == addRegistrationResult(Regs, nextId, eventId, userId,
                                        registeredAt, fail)
       IN IF refusal # "ok"
          THEN /\ last' = [op |-> "handleRegister", id |-> 0, ret |-> refusal]
               /\ UNCHANGED <<mongoRegs, lsRegs, teams, nextId, registrations>>
          ELSE IF step.ret # "ok"
          THEN /\ last' = [op |-> "handleRegister", id |-> 0, ret |-> step.ret]
               /\ UNCHANGED <<mongoRegs, lsRegs, teams, nextId, registrations>>
          ELSE /\ teams' = TeamsAfter(step, out)
               /\ WriteRegs(out.regs)
               /\ nextId' = IF out.id = 0 THEN nextId ELSE nextId + 1
               /\ last' = IF out.id = 0
                          THEN [op |-> "handleRegister", id |-> 0, ret |-> out.ret,
                                user |-> userId, event |-> eventId, team |-> mode = "team"]
                          ELSE [op |-> "handleRegister", id |-> out.id, ret |-> out.ret]
               /\ registrations' = IF out.id = 0 THEN registrations ELSE out.regs
    /\ UNCHANGED <<notifications, backend, proxy, events, calls, res, connected, rest>>

\* handleRegister await by await, for a submit that overlaps the
\* organizer's Open / Close Registration button (Mongo backend).  A submit
\* in flight is a record of calls: pc "team" once the re-fetched event has
\* passed the checks, "addRegistration" once the team step is through,
\* then "done".
RegisterFrame == UNCHANGED <<notifications, backend, proxy, events, lsRegs, res, connected, rest>>

\* allEvents = await getEvents(); latestEvent; the checks before any write
handleRegisterGetEvents(eventId, userId, mode) ==
    /\ USE_MONGO
    /\ Len(calls) < MaxCalls
    /\ nextId + Cardinality({i \in DOMAIN calls : calls[i].pc # "done"}) <= MaxRegs
    /\ LET refusal == RegisterRefusal(eventId, userId, FALSE, FALSE)
       IN IF refusal # "ok"
          THEN /\ last' = [op |-> "handleRegister", id |-> 0, ret |-> refusal]
               /\ UNCHANGED calls
          ELSE /\ calls' = Append(calls, [op |-> "handleRegister", event |-> eventId,
                                          user |-> userId, mode |-> mode, pc |-> "team"])
               /\ UNCHANGED last
    /\ UNCHANGED <<mongoRegs, teams, nextId, registrations>>
    /\ RegisterFrame

\* the team step (a team is created here; joining is left to handleRegister)
handleRegisterTeam(i) ==
    /\ i \in DOMAIN calls
    /\ calls[i].pc = "team"
    /\ calls[i].mode = "team" => Len(teams) < MaxTeams
    /\ teams' = TeamStep(calls[i].event, calls[i].user, calls[i].mode, "create", 0).teams
    /\ calls' = [calls EXCEPT ![i].pc = "addRegistration"]
    /\ UNCHANGED <<mongoRegs, nextId, last, registrations>>
    /\ RegisterFrame

\* newReg = await addRegistration(..); loadData() when it is not null
handleRegisterAddRegistration(i) ==
    /\ i \in DOMAIN calls
    /\ calls[i].pc = "addRegistration"
    /\ LET out == addRegistrationResult(mongoRegs, nextId, calls[i].event,
                                        calls[i].user, 1, 0)
       IN /\ mongoRegs' = out.regs
          /\ nextId' = IF out.id = 0 THEN nextId ELSE nextId + 1
          /\ last' = [op |-> "handleRegister", id |-> out.id, ret |-> out.ret]
          /\ registrations' = IF out.id = 0 THEN registrations ELSE out.regs
    /\ calls' = [calls EXCEPT ![i].pc = "done"]
    /\ UNCHANGED teams
    /\ RegisterFrame

\* --------------------------------------------------------------- users
\* Accounts without Firebase Auth (Mongo or local storage).  A user is
\* [id, email, name]; ids are fresh UUIDs (crypto.randomUUID), here taken
\* from nextId.  fail names the request of the Mongo branch that fails.
UserIds == {u.id : u \in Range(users)}

UserFrame == UNCHANGED <<notifications, backend, proxy, events, mongoRegs, lsRegs, teams, registrations, res, connected, clients, reminders>>

\* getUserProfile(uid): index of the profile in users, 0 for null; the
\* catch of the Mongo branch turns a failed findOne into null as well
getUserProfile(uid, fails) ==
    IF fails THEN 0 ELSE FindIndex([i \in DOMAIN users |-> users[i].id = uid])

\* saveUserProfile(user): the users it leaves.  Mongo: insertOne when
\* getUserProfile returned null, updateOne { id } { $set: user } otherwise;
\* fail 1: the findOne of getUserProfile fails, 2: the write fails (the
\* function falls through to localStorage, which the Mongo branch never
\* reads).  Local storage: replace at findIndex, else push.
saveUserProfile(user, fail) ==
    LET existing == getUserProfile(user.id, USE_MONGO /\ fail = 1)
    IN IF USE_MONGO /\ fail = 2 THEN users
       ELSE IF existing = 0 THEN Append(users, user)
       ELSE [users EXCEPT ![existing] = user]

\* findOne users { email } / users.find(u => u.email === email)
EmailTaken(email) == \E u \in Range(users) : u.email = email

\* registerUser(user, password) without Firebase Auth.  fail 1: the findOne
\* by email fails, outside any try: the promise rejects; 2, 3: fail 1, 2 of
\* saveUserProfile.  CURRENT_USER is set whenever newUser was built.
registerUser(email, fail) ==
    /\ nextId <= MaxRegs
    /\ fail \in (IF USE_MONGO THEN 0..3 ELSE {0})
    /\ IF fail = 1
       THEN /\ last' = [op |-> "registerUser", id |-> 0, ret |-> "throws"]
            /\ UNCHANGED <<users, session, nextId>>
       ELSE IF EmailTaken(email)
       THEN /\ last' = [op |-> "registerUser", id |-> 0, ret |-> "null"]
            /\ UNCHANGED <<users, session, nextId>>
       ELSE LET newUser == [id |-> nextId, email |-> email, name |-> 1]
            IN /\ users' = saveUserProfile(newUser, IF fail = 0 THEN 0 ELSE fail - 1)
               /\ session' = newUser
               /\ nextId' = nextId + 1
               /\ last' = [op |-> "registerUser", id |-> newUser.id, ret |-> "user"]
    /\ UNCHANGED calls
    /\ UserFrame

\* registerUser await by await, for calls that overlap: the lookup by email
registerUserFindOne(email) ==
    /\ USE_MONGO
    /\ nextId <= MaxRegs
    /\ IF EmailTaken(email)
       THEN /\ last' = [op |-> "registerUser", id |-> 0, ret |-> "null"]
            /\ UNCHANGED <<calls, nextId>>
       ELSE /\ calls' = Append(calls, [op |-> "registerUser", pc |-> "saveUserProfile",
                    newUser |-> [id |-> nextId, email |-> email, name |-> 1]])
            /\ nextId' = nextId + 1
            /\ UNCHANGED last
    /\ UNCHANGED <<users, session>>
    /\ UserFrame

\* await saveUserProfile(newUser); CURRENT_USER; return newUser
registerUserSaveUserProfile(i) ==
    /\ i \in DOMAIN calls
    /\ calls[i].pc = "saveUserProfile"
    /\ users' = saveUserProfile(calls[i].newUser, 0)
    /\ session' = calls[i].newUser
    /\ calls' = [calls EXCEPT ![i].pc = "done"]
    /\ last' = [op |-> "registerUser", id |-> calls[i].newUser.id, ret |-> "user"]
    /\ UNCHANGED nextId
    /\ UserFrame

\* loginUser(email, password), for the right password: the first stored
\* user with the email; a failed findOne is caught and gives null
loginUser(email, fail) ==
    /\ fail \in (IF USE_MONGO THEN 0..1 ELSE {0})
    /\ LET k == IF fail = 1 THEN 0
                ELSE FindIndex([i \in DOMAIN users |-> users[i].email = email])
       IN /\ session' = IF k = 0 THEN session ELSE users[k]
          /\ last' = [op |-> "loginUser", id |-> IF k = 0 THEN 0 ELSE users[k].id,
                      ret |-> IF k = 0 THEN "null" ELSE "user"]
    /\ UNCHANGED <<users, calls, nextId>>
    /\ UserFrame

\* logoutUser(): localStorage.removeItem(CURRENT_USER)
logoutUser ==
    /\ session.id # 0
    /\ session' = NoSession
    /\ last' = [op |-> "logoutUser", id |-> session.id, ret |-> "none"]
    /\ UNCHANGED <<users, calls, nextId>>
    /\ UserFrame

\* handleUpdateProfile: saveUserProfile({ ...currentUser, name }) for the
\* logged-in user; the stored CURRENT_USER is not rewritten
handleUpdateProfile(name, fail) ==
    /\ session.id # 0
    /\ Len(users) < MaxRegs
    /\ fail \in (IF USE_MONGO THEN 0..2 ELSE {0})
    /\ users' = saveUserProfile([session EXCEPT !.name = name], fail)
    /\ last' = [op |-> "handleUpdateProfile", id |-> session.id, ret |-> "ok"]
    /\ UNCHANGED <<session, calls, nextId>>
    /\ UserFrame

\* subscribeToAuth(callback) without Firebase Auth, with the promise it
\* starts run to its end.  last.id is the stored user's id (0 without a
\* stored user), last.ret what the callback was given, last.called how
\* often it was called.
subscribeToAuth(fail) ==
    /\ fail \in (IF USE_MONGO THEN 0..1 ELSE {0})
    /\ IF session.id = 0
       THEN /\ last' = [op |-> "subscribeToAuth", id |-> 0, ret |-> "null", called |-> 1]
            /\ UNCHANGED session
       ELSE LET verified == getUserProfile(session.id, fail = 1)
            IN IF verified # 0
               THEN /\ last' = [op |-> "subscribeToAuth", id |-> session.id,
                                ret |-> "user", called |-> 1]
                    /\ UNCHANGED session
               ELSE /\ session' = NoSession
                    /\ last' = [op |-> "subscribeToAuth", id |-> session.id,
                                ret |-> "null", called |-> 1]
    /\ UNCHANGED <<users, calls, nextId>>
    /\ UserFrame

\* ------------------------------------------------ the request handler
\* The Vercel function behind /api/action/[action], in its two generations:
\* "api_action" (api/action/[action].js: getClient() after the collection
\* check, cachedClient set once connected) and "part_000" (the client
\* promise is awaited before req.body is read, and kept when it rejects).
VercelHandlers == {"api_action", "part_000"}

Methods == {"OPTIONS", "GET", "POST"}
Actions == {"find", "findOne", "insertOne", "updateOne", "deleteOne", "deleteMany"}
RequestedActions == Actions \cup {"aggregate", "drop"}
\* req.body: absent (null), an object without collection, one with it
Bodies == {"none", "noCollection", "withCollection"}

\* a handler without the OPTIONS branch
ShortCircuitsNever(method) == FALSE

\* if (req.method === 'OPTIONS') return res.status(200).end()
ShortCircuits(method) == method = "OPTIONS"

\* a handler that does not look at collection
HasCollectionUnchecked(body) == TRUE

\* if (!collection) return res.status(400)... is passed
HasCollection(body) == body = "withCollection"

\* getClient() / getClientPromise() resolves: a cached client, or a
\* connect() that succeeds now
ClientResolves(dbUp) == connected = "yes" \/ (connected = "no" /\ dbUp)

\* what the call leaves cached
ClientAfter(dbUp) ==
    IF connected = "no"
    THEN IF dbUp THEN "yes" ELSE IF proxy = "part_000" THEN "rejected" ELSE "no"
    ELSE connected

\* what a path through the handler sends, as the sequence of its
\* res.status(..).json(..) / .end() calls: status, error text (empty for
\* none; the unknown action is appended to its message), and the driver
\* call made on the collection before
Response(status, error, dbOp) == <<[status |-> status, error |-> error, dbOp |-> dbOp]>>

\* catch (e): res.status(500).json({ error: "Server Error", details })
ServerError(dbOp) == Response(500, <<"Server Error">>, dbOp)

\* switch (action): the driver call and its 200, the catch when it throws,
\* default: 400
Switch(action, opFails) ==
    IF action \in Actions
    THEN IF opFails THEN ServerError(action) ELSE Response(200, <<>>, action)
    ELSE Response(400, <<"Unknown action: ", action>>, "none")

\* the try block of api/action/[action].js
TryApiAction(action, body, dbUp, opFails) ==
    IF body = "none" THEN ServerError("none")
    ELSE IF ~HasCollection(body) THEN Response(400, <<"Missing collection name">>, "none")
    ELSE IF ~ClientResolves(dbUp) THEN ServerError("none")
    ELSE Switch(action, opFails)

\* the try block of the earlier generation
TryPart000(action, body, dbUp, opFails) ==
    IF ~ClientResolves(dbUp) THEN ServerError("none")
    ELSE IF body = "none" THEN ServerError("none")
    ELSE IF ~HasCollection(body) THEN Response(400, <<"Missing collection name">>, "none")
    ELSE Switch(action, opFails)

\* handler(req, res).  dbUp: a connect() made now succeeds; opFails: the
\* driver call throws.  res keeps the request, the cached client it met
\* (conn), the response, and what the handler did on the way: the CORS
\* headers set, req.body read, getClient called, responses sent.
handler(method, action, body, dbUp, opFails) ==
    LET preflight == ShortCircuits(method)
        post == ~preflight /\ method = "POST"
        connects ==
            /\ post
            /\ IF proxy = "api_action" THEN body # "none" /\ HasCollection(body) ELSE TRUE
        sends == IF preflight THEN Response(200, <<>>, "none")
                 ELSE IF ~post THEN Response(405, <<"Method Not Allowed">>, "none")
                 ELSE IF proxy = "api_action"
                      THEN TryApiAction(action, body, dbUp, opFails)
                      ELSE TryPart000(action, body, dbUp, opFails)
        out == sends[1]
        bodyRead ==
            /\ post
            /\ IF proxy = "api_action" THEN TRUE ELSE ClientResolves(dbUp)
    IN /\ proxy \in VercelHandlers
       /\ res' = [method |-> method, action |-> action, body |-> body,
                  dbUp |-> dbUp, opFails |-> opFails, conn |-> connected,
                  status |-> out.status, error |-> out.error, dbOp |-> out.dbOp,
                  cors |-> TRUE, bodyRead |-> bodyRead, connectTried |-> connects,
                  sent |-> Len(sends)]
       /\ connected' = IF connects THEN ClientAfter(dbUp) ELSE connected
       /\ clients' = IF connects /\ connected = "no" /\ dbUp THEN clients + 1 ELSE clients
       /\ UNCHANGED <<notifications, backend, proxy, events, mongoRegs, lsRegs, teams, nextId, last,
                      registrations, calls, reminders, users, session>>

\* ------------------------------------------------------ specifications
\* getClient() ([action].js) / getClientPromise() (part_000) for requests
\* that overlap in one process.  A request in flight is a record of calls:
\* pc "connect" while the connect() of a client it created is pending,
\* "await" while it awaits the promise another request stored, then
\* "done".  connected is "pending" while a stored promise is unsettled.
ConnectFrame == UNCHANGED <<notifications, backend, proxy, events, mongoRegs, lsRegs, teams, nextId, last, registrations, res, reminders, users, session>>

\* if (cachedClient) return cachedClient; new MongoClient(uri) otherwise,
\* cachedClient being assigned after the awaited connect() only /
\* if (!global._mongoClientPromise) { client = new MongoClient(uri);
\* global._mongoClientPromise = client.connect(); }
getClient ==
    /\ proxy \in VercelHandlers
    /\ Len(calls) < MaxRequests
    /\ IF proxy = "api_action"
       THEN /\ calls' = Append(calls, [op |-> "getClient",
                            pc |-> IF connected = "yes" THEN "done" ELSE "connect"])
            /\ UNCHANGED connected
       ELSE /\ calls' = Append(calls, [op |-> "getClient",
                            pc |-> CASE connected = "no" -> "connect"
                                     [] connected = "pending" -> "await"
                                     [] OTHER -> "done"])
            /\ connected' = IF connected = "no" THEN "pending" ELSE connected
    /\ UNCHANGED clients
    /\ ConnectFrame

\* the connect() of the request's own client settles: cachedClient = client
\* on success, a throw that caches nothing otherwise / the stored promise
\* resolves or stays rejected
getClientConnect(i, dbUp) ==
    /\ i \in DOMAIN calls
    /\ calls[i].pc = "connect"
    /\ calls' = [calls EXCEPT ![i].pc = "done"]
    /\ clients' = IF dbUp THEN clients + 1 ELSE clients
    /\ connected' = IF dbUp THEN "yes"
                    ELSE IF proxy = "part_000" THEN "rejected" ELSE connected
    /\ ConnectFrame

\* await getClientPromise() on a promise another request created
getClientAwait(i) ==
    /\ i \in DOMAIN calls
    /\ calls[i].pc = "await"
    /\ connected # "pending"
    /\ calls' = [calls EXCEPT ![i].pc = "done"]
    /\ UNCHANGED <<clients, connected>>
    /\ ConnectFrame

\* In the specifications below calls run one at a time unless said otherwise,
\* and every backend request succeeds (fail = 0) except in SpecEvents,
\* SpecFaults, SpecTeamFaults, SpecDeleteEvent and SpecAuth.
FormDefaultTeamSize == 5

\* the proxy and the calls in flight take no part in the step
Idle == UNCHANGED <<calls, res, connected, rest>>

\* loadData() of the client under study: setRegistrations(regs) with the
\* registrations read after the step
Refresh == registrations' = Regs' /\ Idle

\* the step is made by another client: the React state keeps what it loaded
Stale == UNCHANGED registrations /\ Idle

EventRegIds(e) == {r.id : r \in {x \in Range(registrations) : x.eventId = e}}

SaveEventStep == \E cap \in 1..MaxCap : saveEvent(cap, FormDefaultTeamSize, <<>>, 0)

DeleteStep == \E id \in 1..MaxRegs : deleteRegistration(id, 0)

StatusStep ==
    \E id \in RegIds(registrations), s \in {APPROVED, REJECTED} : handleStatusUpdate(id, s, 0)

BulkStep ==
    \E e \in EventIds, s \in {APPROVED, REJECTED} :
        \E sel \in SUBSET EventRegIds(e) : \E lastSel \in sel :
            bulkUpdateStatus(sel, s, {}, {}, lastSel, FALSE)

\* Spec: the registration lifecycle (check-in is in SpecAttendance).
\* addRegistration never reads
\* participantId; each call is made by another attendee, with the
\* timestamp of that attendee's clock.
Next ==
    \/ SaveEventStep /\ Refresh
    \/ (\E e \in 1..MaxEvents, t \in Times : addRegistration(e, nextId, t, 0)) /\ Refresh
    \/ DeleteStep /\ Refresh
    \/ StatusStep /\ Refresh
    \/ BulkStep /\ Refresh

Spec == Init /\ [][Next]_vars

\* SpecRegisterCancel: addRegistration and deleteRegistration calls only
NextRegisterCancel ==
    \/ SaveEventStep /\ Refresh
    \/ (\E e \in 1..MaxEvents, t \in Times : addRegistration(e, nextId, t, 0)) /\ Refresh
    \/ DeleteStep /\ Refresh

SpecRegisterCancel == Init /\ [][NextRegisterCancel]_vars

\* SpecAttendance: the lifecycle with check-ins at different times
NextAttendance ==
    \/ SaveEventStep /\ Refresh
    \/ (\E e \in 1..MaxEvents : addRegistration(e, nextId, 1, 0)) /\ Refresh
    \/ DeleteStep /\ Refresh
    \/ StatusStep /\ Refresh
    \/ BulkStep /\ Refresh
    \/ (\E id \in 1..MaxRegs, t \in Times : markAttendance(id, t, 0)) /\ Refresh

SpecAttendance == Init /\ [][NextAttendance]_vars

\* SpecTeam: registrations through the modal, alone or in a team
NextTeam ==
    \/ (\E cap \in 1..MaxCap, mts \in 0..MaxTeamSize : saveEvent(cap, mts, <<>>, 0)) /\ Refresh
    \/ \E e \in EventIds, u \in Users, started \in BOOLEAN, missing \in BOOLEAN,
          mode \in {"individual", "team"}, subMode \in {"create", "join"},
          code \in 1..MaxTeams :
          handleRegister(e, u, started, missing, mode, subMode, code, 1, 0)
    \/ DeleteStep /\ Refresh

SpecTeam == Init /\ [][NextTeam]_vars

\* SpecTeamFaults: registrations through the modal while a request of
\* addRegistration can fail.  A failed registration uses up no id, so the
\* teams are what bounds the runs: no submit once a team has more than
\* MaxTeamSize members.
NextTeamFaults ==
    \/ SaveEventStep /\ Refresh
    \/ /\ \A k \in DOMAIN teams : Len(teams[k].members) <= MaxTeamSize
       /\ \E e \in EventIds, u \in Users,
             mode \in {"individual", "team"}, subMode \in {"create", "join"},
             code \in 1..MaxTeams, fail \in 0..3 :
             handleRegister(e, u, FALSE, FALSE, mode, subMode, code, 1, fail)

SpecTeamFaults == Init /\ [][NextTeamFaults]_vars

\* SpecRegister: attendees register through the modal, one submit at a
\* time, cancel, and the organizer approves or rejects; every handler ends
\* with loadData(), so the React state is what is stored
NextRegister ==
    \/ SaveEventStep /\ Refresh
    \/ \E e \in EventIds, u \in Users :
          handleRegister(e, u, FALSE, FALSE, "individual", "create", 1, 1, 0)
    \/ StatusStep /\ Refresh
    \/ DeleteStep /\ Refresh

SpecRegister == Init /\ [][NextRegister]_vars

\* the questions the event form can hold: "+ Add Question" makes a text
\* question without options; the editor can turn it into a required select
\* with options
TextQuestion(id) == [id |-> id, type |-> "text", required |-> FALSE, options |-> NoOptions]
SelectQuestion(id) == [id |-> id, type |-> "select", required |-> TRUE, options |-> Options(<<"a", "b">>)]
Questions == {TextQuestion(id) : id \in 1..MaxQuestions} \cup {SelectQuestion(id) : id \in 1..MaxQuestions}
QuestionLists ==
    {qs \in UNION {[1..n -> Questions] : n \in 0..MaxQuestions} :
        \A i, j \in DOMAIN qs : qs[i].id = qs[j].id => i = j}

\* SpecEvents: events are saved with custom questions and updated (the
\* Open / Close Registration button passes { ...event, isRegistrationOpen });
\* in the Mongo branch a request can fail
NextEvents ==
    \/ (\E cap \in 1..MaxCap, qs \in QuestionLists, fail \in 0..1 :
            saveEvent(cap, FormDefaultTeamSize, qs, fail)) /\ Refresh
    \/ (\E i \in DOMAIN events, open \in BOOLEAN, fail \in 0..1 :
            updateEvent([getEvents[i] EXCEPT !.isRegistrationOpen = open], fail)) /\ Refresh

SpecEvents == Init /\ [][NextEvents]_vars

\* SpecScan: the organizer's client scans tickets; attendees register and
\* cancel from their own clients, which the organizer's React state learns
\* of at its next loadData()
NextScan ==
    \/ SaveEventStep /\ Refresh
    \/ (\E e \in 1..MaxEvents : addRegistration(e, nextId, 1, 0)) /\ Stale
    \/ DeleteStep /\ Stale
    \/ StatusStep /\ Refresh
    \/ loadData
    \/ \E payload \in Payloads : handleScan(payload, MaxTime, 0)

SpecScan == Init /\ [][NextScan]_vars

\* SpecFaults: the registration lifecycle in which any request of the Mongo
\* branch can fail (mongoRequest throws on a response that is not ok).  A
\* status update that fails leaves the row PENDING and can be repeated, each
\* time with a notification: the runs stop at MaxRegs notifications.
NextFaults ==
    \/ SaveEventStep /\ Refresh
    \/ (\E e \in 1..MaxEvents, fail \in 0..3 : addRegistration(e, nextId, 1, fail)) /\ Refresh
    \/ (\E id \in 1..MaxRegs, fail \in 0..4 : deleteRegistration(id, fail)) /\ Refresh
    \/ /\ BagCardinality(notifications) < MaxRegs
       /\ (\E id \in RegIds(registrations), s \in {APPROVED, REJECTED}, fail \in 0..2 :
               handleStatusUpdate(id, s, fail)) /\ Refresh
    \/ (\E id \in 1..MaxRegs, fail \in 0..2 : markAttendance(id, MaxTime, fail)) /\ Refresh

SpecFaults == Init /\ [][NextFaults]_vars

\* SpecRace: attendees register from their own clients against the Mongo
\* branch; the requests of calls in flight interleave freely
InitRace == Init /\ backend = "mongo"

NextRace ==
    \/ SaveEventStep /\ Refresh
    \/ \E e \in 1..MaxEvents : addRegistrationFindOne(e)
    \/ \E i \in DOMAIN calls : addRegistrationFind(i)
    \/ \E i \in DOMAIN calls : addRegistrationInsertOne(i, 1)

SpecRace == InitRace /\ [][NextRace]_vars

\* SpecProxy: requests reach the Vercel function one after the other; the
\* function instance keeps its cached client between them
InitProxy ==
    /\ backend = "mongo"
    /\ proxy \in VercelHandlers
    /\ Fresh

NextProxy ==
    \E method \in Methods, action \in RequestedActions, body \in Bodies,
       dbUp \in BOOLEAN, opFails \in BOOLEAN :
        handler(method, action, body, dbUp, opFails)

SpecProxy == InitProxy /\ [][NextProxy]_vars

\* SpecDeleteEvent: the organizer creates and deletes events while
\* attendees register; the requests of deleteEvent may fail.  An event id is
\* a fresh UUID in the code: a new event never takes an id still in use.
NextDeleteEvent ==
    \/ /\ Len(events) + 1 \notin EventIds \cup {r.eventId : r \in Range(Regs)}
       /\ SaveEventStep /\ Refresh
    \/ (\E e \in 1..MaxEvents : addRegistration(e, nextId, 1, 0)) /\ Refresh
    \/ (\E id \in EventIds, fail \in 0..2 : deleteEvent(id, fail)) /\ Refresh

SpecDeleteEvent == Init /\ [][NextDeleteEvent]_vars

\* SpecQueue: one client after the other registers (registeredAt grows
\* with every call), cancels, and the organizer approves or rejects, for
\* events of capacity QueueCap
NextQueue ==
    \/ saveEvent(QueueCap, FormDefaultTeamSize, <<>>, 0) /\ Refresh
    \/ (\E e \in EventIds : addRegistrationUpTo(QueueRegs, e, nextId, nextId, 0)) /\ Refresh
    \/ (\E id \in RegIds(Regs) : deleteRegistration(id, 0)) /\ Refresh
    \/ StatusStep /\ Refresh

SpecQueue == Init /\ [][NextQueue]_vars

\* SpecCancelRace: attendees register one after the other for events of
\* capacity QueueCap; then cancellations overlap (Mongo backend)
NextCancelRace ==
    \/ calls = <<>> /\ saveEvent(QueueCap, FormDefaultTeamSize, <<>>, 0) /\ Refresh
    \/ /\ calls = <<>>
       /\ (\E e \in EventIds : addRegistrationUpTo(QueueRegs, e, nextId, nextId, 0)) /\ Refresh
    \/ \E id \in RegIds(mongoRegs) : deleteRegistrationFindOne(id)
    \/ \E i \in DOMAIN calls : deleteRegistrationDeleteOne(i)
    \/ \E i \in DOMAIN calls : deleteRegistrationFind(i)
    \/ \E i \in DOMAIN calls : deleteRegistrationUpdateOne(i)

SpecCancelRace == InitRace /\ [][NextCancelRace]_vars

\* SpecReminders: attendees register, the organizer selects all rows of an
\* event and approves them with Bulk Approve, and the reminder effect of
\* an attendee's client runs while earlier runs are still awaiting
\* addNotification (Mongo backend); every event starts within the hour
NextReminders ==
    \/ SaveEventStep /\ Refresh
    \/ (\E e \in 1..MaxEvents : addRegistration(e, nextId, 1, 0)) /\ Refresh
    \/ (\E e \in EventIds : \E lastSel \in EventRegIds(e) :
            bulkUpdateStatus(EventRegIds(e), APPROVED, {}, {}, lastSel, FALSE)) /\ Refresh
    \/ \E reg \in Range(registrations) : checkReminders(reg)
    \/ \E i \in DOMAIN calls : checkRemindersInsertOne(i)
    \/ \E i \in DOMAIN calls : checkRemindersSetItem(i)

SpecReminders == InitRace /\ [][NextReminders]_vars

\* SpecConnect: requests reach one process of the proxy while earlier ones
\* are still connecting
NextConnect ==
    \/ getClient
    \/ \E i \in DOMAIN calls, dbUp \in BOOLEAN : getClientConnect(i, dbUp)
    \/ \E i \in DOMAIN calls : getClientAwait(i)

SpecConnect == InitProxy /\ [][NextConnect]_vars

\* SpecRegisterClose: attendees submit the registration modal while the
\* organizer opens and closes the registration of the event
NextRegisterClose ==
    \/ SaveEventStep /\ Stale
    \/ (\E i \in DOMAIN events :
            updateEvent([getEvents[i] EXCEPT !.isRegistrationOpen = ~@], 0)) /\ Stale
    \/ \E e \in EventIds, u \in Users, mode \in {"individual", "team"} :
          handleRegisterGetEvents(e, u, mode)
    \/ \E i \in DOMAIN calls : handleRegisterTeam(i)
    \/ \E i \in DOMAIN calls : handleRegisterAddRegistration(i)

SpecRegisterClose == InitRace /\ [][NextRegisterClose]_vars

\* SpecAuth: accounts without Firebase Auth, one call at a time; the
\* requests of the Mongo branch may fail
Emails == 1..MaxUsers

NextAuth ==
    \/ \E email \in Emails, fail \in 0..3 : registerUser(email, fail)
    \/ \E email \in Emails, fail \in 0..1 : loginUser(email, fail)
    \/ logoutUser
    \/ \E name \in 1..MaxUsers, fail \in 0..2 : handleUpdateProfile(name, fail)
    \/ \E fail \in 0..1 : subscribeToAuth(fail)

SpecAuth == Init /\ [][NextAuth]_vars

\* SpecAuthRace: registerUser calls overlap and profiles are edited (Mongo
\* backend); no request fails
NextAuthRace ==
    \/ \E email \in Emails : registerUserFindOne(email)
    \/ \E i \in DOMAIN calls : registerUserSaveUserProfile(i)
    \/ \E email \in Emails : loginUser(email, 0)
    \/ \E name \in 1..MaxUsers : handleUpdateProfile(name, 0)

SpecAuthRace == InitRace /\ [][NextAuthRace]_vars

\* SpecLoad: the client under study reloads while attendees register from
\* their own clients; its loadData calls overlap
NextLoad ==
    \/ SaveEventStep /\ Stale
    \/ (\E e \in 1..MaxEvents : addRegistration(e, nextId, 1, 0)) /\ Stale
    \/ loadDataSend
    \/ \E i \in DOMAIN calls : loadDataServe(i)
    \/ \E i \in DOMAIN calls : loadDataResolve(i)

SpecLoad == InitRace /\ [][NextLoad]_vars

\* ---------------------------------------------------------------- claims
\* the registrations of event e that consume a seat
Active(regs, e) ==
    {r \in Range(regs) : r.eventId = e /\ r.status \in {PENDING, APPROVED}}

\* the status the registration id has after the step, "gone" when deleted
StatusAfter(id) ==
    IF id \in RegIds(Regs') THEN RegById(Regs', id).status ELSE "gone"

\* C1: for every event, after any sequence of addRegistration and
\* deleteRegistration calls run one at a time, the number of its
\* registrations with status PENDING or APPROVED is at most its capacity.
C1_CapacityRespected ==
    \A e \in Range(events) : Cardinality(Active(Regs, e.id)) <= e.capacity

\* C2: deleteRegistration of an existing registration of event E with at
\* least one WAITLISTED peer promotes exactly one peer to PENDING, that peer
\* has the smallest registeredAt of the WAITLISTED peers, and every other
\* WAITLISTED peer stays WAITLISTED, in either branch and whatever the
\* stored order.
C2_OldestPeerPromoted ==
    [][(last'.op = "deleteRegistration" /\ last'.id \in RegIds(Regs)) =>
        LET d == RegById(Regs, last'.id)
            peers == {r \in Range(Regs) :
                        r.eventId = d.eventId /\ r.id # d.id /\ r.status = WAITLISTED}
            promoted == {r \in peers : StatusAfter(r.id) = PENDING}
        IN peers # {} =>
              /\ Cardinality(promoted) = 1
              /\ \A r \in promoted : \A o \in peers : r.registeredAt <= o.registeredAt
              /\ \A r \in peers \ promoted : StatusAfter(r.id) = WAITLISTED
      ]_vars

\* C4: addRegistration stores the new registration as WAITLISTED exactly
\* when the number of the event's APPROVED or PENDING registrations is at
\* least its capacity at the time of the call, and as PENDING otherwise.
C4_WaitlistedIffNoSeat ==
    [][(last'.op = "addRegistration" /\ last'.id # 0) =>
        LET new == RegById(Regs', last'.id)
            event == EventById(new.eventId)
        IN IF Cardinality(Active(Regs, event.id)) >= event.capacity
           THEN new.status = WAITLISTED
           ELSE new.status = PENDING
      ]_vars

\* C5: deleteRegistration promotes a WAITLISTED registration to PENDING
\* only if the deleted registration had status PENDING or APPROVED.
C5_PromotionOnlyForFreedSeat ==
    [][(/\ last'.op = "deleteRegistration"
        /\ \E r \in Range(Regs) : r.status = WAITLISTED /\ StatusAfter(r.id) = PENDING)
       => /\ last'.id \in RegIds(Regs)
          /\ RegById(Regs, last'.id).status \in {PENDING, APPROVED}
      ]_vars

\* C7: a WAITLISTED registration leaves that status only by being promoted
\* to PENDING during a peer's deletion; no organizer action moves it to
\* APPROVED or REJECTED.
C7_WaitlistedLeavesOnlyByPromotion ==
    [][\A r \in Range(Regs) : r.status = WAITLISTED =>
          \/ StatusAfter(r.id) \in {WAITLISTED, "gone"}
          \/ StatusAfter(r.id) = PENDING /\ last'.op = "deleteRegistration"
      ]_vars

EventRegs(regs, e) == SelectSeq(regs, LAMBDA r : r.eventId = e)

\* C9: for an event of capacity 1, the first of two addRegistration calls
\* made one after the other gets PENDING and the second WAITLISTED, and a
\* following deleteRegistration of the first leaves the second PENDING.
C9_CapacityOneScenario ==
    [][\A e \in Range(events) : e.capacity = 1 =>
        LET before == EventRegs(Regs, e.id)
            after == EventRegs(Regs', e.id)
            added == last'.op = "addRegistration" /\ last'.id # 0
                     /\ RegById(Regs', last'.id).eventId = e.id
        IN /\ (before = <<>> /\ added) =>
                  Len(after) = 1 /\ after[1].status = PENDING
           /\ (Len(before) = 1 /\ before[1].status = PENDING /\ added) =>
                  /\ Len(after) = 2
                  /\ after[1].status = PENDING /\ after[2].status = WAITLISTED
           /\ (/\ Len(before) = 2
               /\ before[1].status = PENDING /\ before[2].status = WAITLISTED
               /\ last'.op = "deleteRegistration" /\ last'.id = before[1].id) =>
                  /\ Len(after) = 1
                  /\ after[1].id = before[2].id /\ after[1].status = PENDING
      ]_vars

\* the only event has capacity 1 and, of the two registrations ever made,
\* the second is alone and PENDING right after the first was deleted
C9_Witness ==
    /\ USE_MONGO /\ Len(events) = 1 /\ nextId = 3
    /\ last = [op |-> "deleteRegistration", id |-> 1, ret |-> "true"]
    /\ events[1].capacity = 1
    /\ Len(Regs) = 1 /\ Regs[1].id = 2 /\ Regs[1].status = PENDING

\* the attended flag and attendanceTime of every registration are unchanged
AttendanceUnchanged ==
    \A r \in Range(Regs) : r.id \in RegIds(Regs') =>
        /\ RegById(Regs', r.id).attended = r.attended
        /\ RegById(Regs', r.id).attendanceTime = r.attendanceTime

\* C3: markAttendance(id) returns false and leaves attended and
\* attendanceTime of every registration unchanged when the registration
\* does not exist or is PENDING, REJECTED or WAITLISTED; a registration's
\* attended flag becomes true only by a markAttendance call on it that read
\* the status APPROVED.
C3_AttendanceOnlyWhenApproved ==
    [][/\ (/\ last'.op = "markAttendance"
            /\ \/ last'.id \notin RegIds(Regs)
               \/ RegById(Regs, last'.id).status \in {PENDING, REJECTED, WAITLISTED})
           => (last'.ret = "false" /\ AttendanceUnchanged)
       /\ \A r \in Range(Regs) :
             (/\ ~r.attended /\ r.id \in RegIds(Regs')
              /\ RegById(Regs', r.id).attended)
             => /\ last'.op = "markAttendance" /\ last'.id = r.id
                /\ last'.ret = "true" /\ r.status = APPROVED
      ]_vars

\* a check-in of a WAITLISTED registration was refused while an approved
\* participant of the same event is checked in
C3_Witness ==
    /\ last.op = "markAttendance" /\ last.ret = "false"
    /\ \E r \in Range(Regs) :
          /\ r.id = last.id /\ r.status = WAITLISTED /\ ~r.attended
          /\ \E a \in Range(Regs) :
                a.eventId = r.eventId /\ a.status = APPROVED /\ a.attended

\* C6: a markAttendance call on an APPROVED registration that is already
\* attended returns false and leaves attended and attendanceTime unchanged.
C6_AttendedFlipsOnce ==
    [][(/\ last'.op = "markAttendance"
        /\ last'.id \in RegIds(Regs)
        /\ RegById(Regs, last'.id).status = APPROVED
        /\ RegById(Regs, last'.id).attended)
       => (last'.ret = "false" /\ AttendanceUnchanged)
      ]_vars

\* C10: a join by invite code leaves the team untouched whenever
\* team.members.length >= event.maxTeamSize at the time of the call, for
\* every maxTeamSize an event can be saved with, 0 included.
C10_FullTeamRefusesJoin ==
    [][\A k \in DOMAIN teams :
          Len(teams[k].members) >= EventById(teams[k].eventId).maxTeamSize
          => teams'[k] = teams[k]
      ]_vars

\* C11: handleScan of a payload whose id matches no registration shows
\* 'Invalid Ticket or Participant not found' and changes no registration; a
\* payload that is not JSON or has no id shows an error without calling
\* markAttendance.
C11_UnknownTicketToast ==
    [][last'.op = "handleScan" =>
          /\ (last'.id # 0 /\ last'.id \notin RegIds(Regs)) =>
                /\ last'.ret = "Invalid Ticket or Participant not found"
                /\ Regs' = Regs
          /\ last'.id = 0 =>
                /\ ~last'.called
                /\ last'.ret = "Invalid QR Code Format"
                /\ Regs' = Regs
      ]_vars

C13_FailuresAreZeroValues == last.ret # "throws"

\* C14: while Mongo is the selected backend no data operation writes the
\* local-storage collections, also when the operation's Mongo request fails.
C14_MongoNeverWritesLocal == [][USE_MONGO => lsRegs' = lsRegs]_vars

\* the calls that have stored a registration for event e
Stored(e) == {i \in DOMAIN calls : calls[i].pc = "done" /\ calls[i].id # 0 /\ calls[i].eventId = e}

\* C15: overlapping addRegistration calls insert with the status that follows
\* from the count each of them read, not from the collection at the insert,
\* and the capacity of an event is exceeded only when two calls for it read
\* the same count below capacity (and both inserted PENDING).
C15_OverlappingCallsExceedCapacity ==
    /\ \A i \in DOMAIN calls :
          (calls[i].pc = "done" /\ calls[i].id # 0) =>
             RegById(mongoRegs, calls[i].id).status =
                IF calls[i].count < calls[i].capacity THEN PENDING ELSE WAITLISTED
    /\ \A e \in EventIds :
          Cardinality(Active(mongoRegs, e)) > EventById(e).capacity =>
             \E i, j \in Stored(e) :
                /\ i # j
                /\ calls[i].count = calls[j].count
                /\ calls[i].count < calls[i].capacity

\* two calls for one event have both read a count below capacity and both
\* inserted PENDING: more seats are taken than the event has
C15_Witness ==
    \E e \in EventIds : \E i, j \in Stored(e) :
        /\ i # j
        /\ calls[i].count < EventById(e).capacity
        /\ calls[j].count < EventById(e).capacity
        /\ RegById(mongoRegs, calls[i].id).status = PENDING
        /\ RegById(mongoRegs, calls[j].id).status = PENDING
        /\ Cardinality(Active(mongoRegs, e)) > EventById(e).capacity

\* C16: the Mongo branch and the local-storage branch are interchangeable:
\* on the same registrations, deleteRegistration(id) gives in the Mongo
\* branch the return value and the registrations the local-storage branch
\* gives, also for an id that is not stored.
C16_BranchesInterchangeable ==
    \A id \in 1..MaxRegs :
        deleteRegistrationMongo(Regs, id, 0) \subseteq deleteRegistrationLocal(Regs, id)

\* the handler obtained its client: one was cached, or connect() succeeded
ClientObtained == res.conn = "yes" \/ (res.conn = "no" /\ res.dbUp)

\* the request's processing throws: req.body is null when it is
\* destructured, the client cannot be obtained when the handler asks for
\* it, or the driver call fails
ProcessingThrows ==
    \/ IF proxy = "api_action"
       THEN res.body = "none" \/ (res.body = "withCollection" /\ ~ClientObtained)
       ELSE ~ClientObtained \/ res.body = "none"
    \/ res.body = "withCollection" /\ res.action \in Actions /\ res.opFails

C18_OptionsShortCircuits ==
    res.method = "OPTIONS" =>
        /\ res.status = 200
        /\ res.cors
        /\ ~res.connectTried
        /\ connected = res.conn
        /\ ~res.bodyRead
        /\ res.dbOp = "none"
        /\ res.sent = 1

\* an OPTIONS request carrying a body reached a handler that has no client
\* yet, and left it so
C18_Witness ==
    /\ res.method = "OPTIONS"
    /\ res.body = "withCollection"
    /\ res.status = 200
    /\ connected = "no"

\* user u is a member of a team of event e
InTeam(ts, u, e) == \E k \in DOMAIN ts : ts[k].eventId = e /\ u \in Range(ts[k].members)

\* C19: the team write and the registration write are separate steps with
\* no rollback: when handleRegister ends with addRegistration returning null
\* no registration is stored, and in a team registration the team written
\* just before stays: a new team led by the user, or one more member.
C19_TeamWriteNotRolledBack ==
    [][(last'.op = "handleRegister" /\ last'.ret = "null") =>
          /\ Regs' = Regs
          /\ last'.team =>
                \/ /\ Len(teams') = Len(teams) + 1
                   /\ SubSeq(teams', 1, Len(teams)) = teams
                   /\ teams'[Len(teams')].eventId = last'.event
                   /\ teams'[Len(teams')].members = <<last'.user>>
                \/ /\ Len(teams') = Len(teams)
                   /\ \E k \in DOMAIN teams :
                         /\ teams'[k].members = Append(teams[k].members, last'.user)
                         /\ teams[k].eventId = last'.event
                         /\ \A j \in DOMAIN teams \ {k} : teams'[j] = teams[j]
      ]_vars

\* a team registration failed at addRegistration: the user is in a team of
\* the event and holds no registration for it
C19_Witness ==
    /\ last.op = "handleRegister" /\ last.ret = "null" /\ last.team
    /\ InTeam(teams, last.user, last.event)
    /\ ~\E r \in Range(Regs) : r.eventId = last.event /\ r.participantId = last.user

\* user u holds a registration for event e that is not REJECTED
HoldsNonRejected(u, e) ==
    \E r \in Range(Regs) : r.eventId = e /\ r.participantId = u /\ r.status # REJECTED

\* C20: a submit of the registration form by user u for event e is refused
\* as already registered exactly when u holds a non-rejected registration
\* for e (so a user whose registrations for e are all REJECTED registers
\* again), and no user holds two non-rejected registrations for one event.
C20_RefusedIffNonRejectedHeld ==
    [][/\ \A e \in EventIds, u \in Users :
            handleRegister(e, u, FALSE, FALSE, "individual", "create", 1, 1, 0) =>
               ((last'.ret = "You are already registered for this event")
                   <=> HoldsNonRejected(u, e))
       /\ \A i, j \in DOMAIN Regs' :
            (/\ Regs'[i].eventId = Regs'[j].eventId
             /\ Regs'[i].participantId = Regs'[j].participantId
             /\ Regs'[i].status # REJECTED
             /\ Regs'[j].status # REJECTED) => i = j
      ]_vars

\* C21: updateRegistrationStatus(id, status) changes the status field of
\* the registration with that id and nothing else: the other registrations
\* and the target's attended / attendanceTime stay, no waitlisted
\* registration is promoted, and the notifications stay (the Bulk buttons
\* call it alone; handleStatusUpdate adds its own single notification after).
C21_StatusUpdateFrame ==
    [][last'.op \in {"handleStatusUpdate", "bulkUpdateStatus"} =>
          /\ Len(Regs') = Len(Regs)
          /\ \A i \in DOMAIN Regs :
                /\ Regs'[i] = [Regs[i] EXCEPT !.status = Regs'[i].status]
                /\ Regs'[i].status # Regs[i].status =>
                      /\ Regs'[i].status = last'.ret
                      /\ last'.op = "handleStatusUpdate" => Regs[i].id = last'.id
          /\ last'.op = "bulkUpdateStatus" => notifications' = notifications
          /\ last'.op = "handleStatusUpdate" =>
                BagCardinality(notifications') = BagCardinality(notifications) + 1
      ]_vars

\* a checked-in registration was rejected by the Bulk Reject button while
\* another registration of the event waits: it keeps attended, the other
\* one stays WAITLISTED
C21_Witness ==
    /\ last.op = "bulkUpdateStatus" /\ last.ret = REJECTED
    /\ \E r, w \in Range(Regs) :
          /\ r.status = REJECTED /\ r.attended /\ r.attendanceTime # 0
          /\ w.eventId = r.eventId /\ w.status = WAITLISTED

\* C22: when loadData calls overlap the UI holds the registrations of the
\* response that resolves last, whichever call was issued last: every
\* response that resolves is applied.
C22_LastResponseWins ==
    [][\A i \in DOMAIN calls :
          (calls[i].pc = "served" /\ calls'[i].pc = "done") =>
              registrations' = calls[i].regs
      ]_vars

\* the call issued first resolved last: the UI holds its registrations,
\* fewer than those of a later call it had shown before
C22_Witness ==
    /\ last.op = "loadData"
    /\ \E j \in DOMAIN calls :
          /\ last.id < j
          /\ calls[last.id].pc = "done" /\ calls[j].pc = "done"
          /\ registrations = calls[last.id].regs
          /\ Len(calls[j].regs) > Len(registrations)

\* C23: once deleteEvent(id) has returned true the event is no longer
\* stored and no stored registration has that eventId.
C23_DeletedEventLeavesNothing ==
    (last.op = "deleteEvent" /\ last.ret = "true") =>
        /\ last.id \notin EventIds
        /\ \A r \in Range(Regs) : r.eventId # last.id

\* C24: addRegistration never stores a registration as PENDING while an
\* older registration of the same event is still WAITLISTED.
C24_NoQueueJumping ==
    (last.op = "addRegistration" /\ last.ret = PENDING) =>
        LET new == RegById(Regs, last.id)
        IN \A w \in Range(Regs) :
              ~ /\ w.eventId = new.eventId
                /\ w.status = WAITLISTED
                /\ w.registeredAt < new.registeredAt

\* C25: when two deleteRegistration calls of the Mongo branch have deleted
\* two different PENDING or APPROVED registrations of one event that had
\* at least two WAITLISTED registrations, each call has promoted a
\* WAITLISTED registration of its own and both are PENDING now.
C25_NoPromotionLost ==
    \A i, j \in DOMAIN calls :
        ( /\ i < j
          /\ calls[i].pc = "done" /\ calls[j].pc = "done"
          /\ calls[i].deleted /\ calls[j].deleted
          /\ calls[i].id # calls[j].id
          /\ calls[i].eventId = calls[j].eventId
          /\ calls[i].status \in {PENDING, APPROVED}
          /\ calls[j].status \in {PENDING, APPROVED}
          /\ calls[i].waitlisted >= 2 /\ calls[j].waitlisted >= 1 ) =>
        /\ calls[i].next # 0 /\ calls[j].next # 0
        /\ calls[i].next # calls[j].next
        /\ \A n \in {calls[i].next, calls[j].next} :
              n \in RegIds(mongoRegs) /\ RegById(mongoRegs, n).status = PENDING

\* C26: the stored notifications hold at most one 'Upcoming Event'
\* notification for an event and a user.
C26_OneReminderPerEventAndUser ==
    \A n \in BagToSet(notifications) :
        n.title = "Upcoming Event" => CopiesIn(n, notifications) <= 1

\* C27: a process of the proxy connects at most one MongoClient, however
\* its requests interleave.
C27_OneClientPerProcess == clients <= 1

\* C28: handleRegister writes a registration, and creates a team, only for
\* an event whose isRegistrationOpen is true at the moment of the write.
C28_NoWriteWhileClosed ==
    [][\A i \in DOMAIN calls :
          ( /\ calls[i].op = "handleRegister"
            /\ calls'[i].pc # calls[i].pc
            /\ mongoRegs' # mongoRegs \/ teams' # teams ) =>
              /\ calls[i].event \in EventIds
              /\ EventById(calls[i].event).isRegistrationOpen
      ]_vars

\* C29: subscribeToAuth calls its callback exactly once, and removes the
\* stored CURRENT_USER only when the profile of the stored user no longer
\* exists.
C29_LogoutOnlyWhenProfileGone ==
    last.op = "subscribeToAuth" =>
        /\ last.called = 1
        /\ (last.id # 0 /\ session.id = 0) => last.id \notin UserIds

\* C30: no two stored users share an email.
C30_EmailsUnique ==
    \A i, j \in DOMAIN users : users[i].email = users[j].email => i = j

====
